---- MODULE Spec2Model ----
(***************************************************************************)
(* Model of GoRogue.Docs/xref_stripper.py: a confirmation prompt, a walk  *)
(* over the directory tree under CS_PATH, and for every file whose path   *)
(* ends with '.cs' a read, two regular-expression substitution passes and *)
(* a write back to the same path.                                         *)
(*                                                                         *)
(* Text is a sequence of Unicode code points, file content a sequence of  *)
(* bytes; decoding and encoding are UTF-8.                                *)
(***************************************************************************)
EXTENDS Integers, Sequences, FiniteSets, TLC

(***************************************************************************)
(* Characters of the patterns (code points).                               *)
(***************************************************************************)
LT == 60
GT == 62
EQ == 61
QUOTE == 34
SLASH == 47
DOT == 46
NL == 10

SeeLit == <<115, 101, 101>>
CrefLit == <<99, 114, 101, 102>>
SadRogueLit == <<83, 97, 100, 82, 111, 103, 117, 101>>
TroschuetzLit == <<84, 114, 111, 115, 99, 104, 117, 101, 116, 122>>

\* The namespaces of CREF_REGEXES, in list order.
CREF_REGEXES == <<SadRogueLit, TroschuetzLit>>

\* F(v) with v evaluated first and once, as Python evaluates the right-hand
\* side of an assignment to a local variable.  (Inside ENABLED, TLC
\* evaluates a LET definition or an operator's argument anew at each use.)
ByValue(F(_), v) == CHOOSE r \in {F(x) : x \in {v}} : TRUE

\* \s of a str pattern: the characters for which str.isspace() holds.
IsSpace(c) ==
    \/ c \in 9..13
    \/ c \in 28..32
    \/ c \in {133, 160, 5760}
    \/ c \in 8192..8202
    \/ c \in {8232, 8233, 8239, 8287, 12288}

\* '.' without DOTALL: any character but the line feed.
IsDot(c) == c # NL

\* The literal lit occurs in t at position i.
HasLit(t, i, lit) ==
    /\ i >= 1
    /\ i + Len(lit) - 1 <= Len(t)
    /\ \A k \in 1..Len(lit) : t[i + k - 1] = lit[k]

\* Mutant of SpaceThenLit: no white space is skipped.
SpaceThenLitStrict(t, i, lit) == IF HasLit(t, i, lit) THEN i + Len(lit) ELSE 0

\* \s*? followed by a literal, matched at position i: the literal is tried
\* first, and one more white-space character is consumed only when it does
\* not match (lazy).  The position after the literal, or 0 for no match.
RECURSIVE SpaceThenLit(_, _, _)
SpaceThenLit(t, i, lit) ==
    IF i = 0 THEN 0
    ELSE IF HasLit(t, i, lit) THEN i + Len(lit)
    ELSE IF i <= Len(t) /\ IsSpace(t[i]) THEN SpaceThenLit(t, i + 1, lit)
    ELSE 0

\* <\s*?see\s*?cref\s*?=\s*?" at position i: the position after the quote,
\* or 0.
OpenEnd(t, i) ==
    IF ~HasLit(t, i, <<LT>>) THEN 0
    ELSE ByValue(LAMBDA a :
           ByValue(LAMBDA b :
             ByValue(LAMBDA c : SpaceThenLit(t, c, <<QUOTE>>),
                     SpaceThenLit(t, b, <<EQ>>)),
                   SpaceThenLit(t, a, CrefLit)),
                 SpaceThenLit(t, i + 1, SeeLit))

\* "\s*?\/\s*?> at position j: the position after '>', or 0.
CloseEnd(t, j) ==
    IF ~HasLit(t, j, <<QUOTE>>) THEN 0
    ELSE ByValue(LAMBDA a : SpaceThenLit(t, a, <<GT>>),
                 SpaceThenLit(t, j + 1, <<SLASH>>))

\* .+? followed by the closing part, with the group's first character
\* already taken and the group so far ending before j: the shortest
\* extension by characters '.' accepts after which the closing part matches
\* (lazy).  The position of the closing quote, or 0.
LazyDots(t, j) ==
    ByValue(LAMBDA Q : IF Q = {} THEN 0 ELSE CHOOSE q \in Q : \A r \in Q : q <= r,
            {q \in j..Len(t) :
               /\ CloseEnd(t, q) # 0
               /\ \A k \in j..(q - 1) : IsDot(t[k])})

NoMatch == [start |-> 0, end |-> 0, gs |-> 0, ge |-> 0]

\* The match of the pattern of namespace ns that starts at position i:
\* start, the position after the match, and the span of group 1.
MatchAt(t, i, ns) ==
    ByValue(LAMBDA o :
      IF o = 0 \/ ~HasLit(t, o, ns \o <<DOT>>) THEN NoMatch
      ELSE ByValue(LAMBDA d :
             IF d > Len(t) \/ ~IsDot(t[d]) THEN NoMatch
             ELSE ByValue(LAMBDA q :
                    IF q = 0 THEN NoMatch
                    ELSE [start |-> i, end |-> CloseEnd(t, q),
                          gs |-> o, ge |-> q - 1],
                          LazyDots(t, d + 1)),
                   o + Len(ns) + 1),
            OpenEnd(t, i))

\* Mutant of convert_to_match: group 0, the whole match.
convert_to_group0(t, m) == SubSeq(t, m.start, m.end - 1)

\* convert_to_match: group 1 of the match.
convert_to_match(t, m) == SubSeq(t, m.gs, m.ge)

\* The scan of re.sub from position i on: the start of the leftmost match at
\* or after i, or 0 when there is none.
Search(t, i, ns) ==
    ByValue(LAMBDA S : IF S = {} THEN 0 ELSE CHOOSE k \in S : \A l \in S : k <= l,
            {k \in i..Len(t) : MatchAt(t, k, ns).end # 0})

\* Mutant of SubFrom: count=1, only the leftmost match is replaced.
SubFromFirstOnly(t, i, ns) ==
    ByValue(LAMBDA s :
              IF s = 0 THEN SubSeq(t, i, Len(t))
              ELSE ByValue(LAMBDA m :
                             SubSeq(t, i, s - 1) \o SubSeq(t, m.gs, m.ge)
                               \o SubSeq(t, m.end, Len(t)),
                           MatchAt(t, s, ns)),
            Search(t, i, ns))

\* re.sub(regex, convert_to_match, t) from position i on: the text before the
\* leftmost match is kept, the match is replaced by what convert_to_match
\* returns, and the scan goes on after the match.
RECURSIVE SubFrom(_, _, _)
SubFrom(t, i, ns) ==
    ByValue(LAMBDA s :
              IF s = 0 THEN SubSeq(t, i, Len(t))
              ELSE ByValue(LAMBDA m :
                             SubSeq(t, i, s - 1) \o convert_to_match(t, m)
                               \o SubFrom(t, m.end, ns),
                           MatchAt(t, s, ns)),
            Search(t, i, ns))

ReSub(ns, t) == SubFrom(t, 1, ns)

\* The loop over CREF_REGEXES: one pass per pattern, in list order.
Rewrite(t) == ReSub(CREF_REGEXES[2], ReSub(CREF_REGEXES[1], t))

\* re.search: the pattern of namespace ns matches somewhere in t.
Matches(ns, t) == \E i \in 1..Len(t) : MatchAt(t, i, ns).end # 0


(***************************************************************************)
(* UTF-8: bytes.decode("UTF-8") and str.encode("UTF-8"), strict.           *)
(***************************************************************************)
IsCont(b, i) == i <= Len(b) /\ b[i] \in 128..191

\* The length of the well-formed UTF-8 sequence that starts at byte i, or 0
\* when the bytes there are not one (a stray continuation byte, an overlong
\* form, a surrogate, a truncated sequence, a lead byte above F4).
SeqLen(b, i) ==
    LET c == b[i]
    IN  IF c <= 127 THEN 1
        ELSE IF c \in 194..223 THEN (IF IsCont(b, i + 1) THEN 2 ELSE 0)
        ELSE IF c \in 224..239
        THEN IF /\ IsCont(b, i + 1) /\ IsCont(b, i + 2)
                /\ (c = 224 => b[i + 1] >= 160)
                /\ (c = 237 => b[i + 1] <= 159)
             THEN 3 ELSE 0
        ELSE IF c \in 240..244
        THEN IF /\ IsCont(b, i + 1) /\ IsCont(b, i + 2) /\ IsCont(b, i + 3)
                /\ (c = 240 => b[i + 1] >= 144)
                /\ (c = 244 => b[i + 1] <= 143)
             THEN 4 ELSE 0
        ELSE 0

\* The code point of the well-formed sequence of n bytes at i.
CodePoint(b, i, n) ==
    CASE n = 1 -> b[i]
      [] n = 2 -> (b[i] - 192) * 64 + (b[i + 1] - 128)
      [] n = 3 -> (b[i] - 224) * 4096 + (b[i + 1] - 128) * 64 + (b[i + 2] - 128)
      [] n = 4 -> (b[i] - 240) * 262144 + (b[i + 1] - 128) * 4096
                    + (b[i + 2] - 128) * 64 + (b[i + 3] - 128)

\* The bytes are valid when each belongs to a well-formed sequence: a byte
\* that is no continuation byte starts one, and a continuation byte is the
\* k-th after the start of one that is longer than k.  Otherwise decode
\* raises UnicodeDecodeError.
ValidUtf8(b) ==
    \A i \in 1..Len(b) :
        IF b[i] \in 128..191
        THEN \E k \in 1..3 : i - k >= 1 /\ SeqLen(b, i - k) > k
        ELSE SeqLen(b, i) # 0

\* The positions at which the sequences of valid bytes start.
Starts(b) == {i \in 1..Len(b) : b[i] \notin 128..191}

\* bytes.decode("UTF-8") of valid bytes: the code points of the sequences,
\* in order.
Decode(b) ==
    [k \in 1..Cardinality(Starts(b)) |->
        ByValue(LAMBDA i : CodePoint(b, i, SeqLen(b, i)),
                CHOOSE i \in Starts(b) :
                    Cardinality({j \in Starts(b) : j <= i}) = k)]

EncodeChar(c) ==
    IF c <= 127 THEN <<c>>
    ELSE IF c <= 2047 THEN <<192 + (c \div 64), 128 + (c % 64)>>
    ELSE IF c <= 65535
    THEN <<224 + (c \div 4096), 128 + ((c \div 64) % 64), 128 + (c % 64)>>
    ELSE <<240 + (c \div 262144), 128 + ((c \div 4096) % 64),
           128 + ((c \div 64) % 64), 128 + (c % 64)>>

RECURSIVE EncodeFrom(_, _)
EncodeFrom(t, i) ==
    IF i > Len(t) THEN <<>> ELSE EncodeChar(t[i]) \o EncodeFrom(t, i + 1)

\* str.encode("UTF-8").
Encode(t) == EncodeFrom(t, 1)


(***************************************************************************)
(* The directory tree under CS_PATH.  Paths are sequences of characters.   *)
(***************************************************************************)
\* Files in the tree.
MaxFiles == 3

CS_PATH == <<"G", "o", "R", "o", "g", "u", "e">>

\* os.path.join(path, name).
Join(p, name) == p \o <<"/">> \o name

SubDir == Join(CS_PATH, <<"d">>)

\* The directories in the order os.walk yields them (top-down).
WalkOrder == <<CS_PATH, SubDir>>

\* The files the tree may hold, directory and name; the tree holds the first
\* MaxFiles of them.
AllFiles ==
    << [dir |-> CS_PATH, name |-> <<"a", ".", "c", "s">>],
       [dir |-> SubDir,  name |-> <<"b", ".", "c", "s">>],
       [dir |-> SubDir,  name |-> <<"n", ".", "c", "s", "x">>],
       [dir |-> CS_PATH, name |-> <<".", "c", "s">>],
       [dir |-> SubDir,  name |-> <<"c", "s">>] >>

TreeFiles == {AllFiles[k] : k \in 1..MaxFiles}

\* The third component of what os.walk yields for directory d: its files.
Listing(d) == {f.name : f \in {g \in TreeFiles : g.dir = d}}

FilePaths == {Join(f.dir, f.name) : f \in TreeFiles}

\* str.endswith.
EndsWith(p, suffix) ==
    /\ Len(p) >= Len(suffix)
    /\ SubSeq(p, Len(p) - Len(suffix) + 1, Len(p)) = suffix

DotCs == <<".", "c", "s">>

\* Mutant of IsCs: '.cs' in file_path.
IsCsAnywhere(p) ==
    \E k \in 1..Len(p) : k + 2 <= Len(p) /\ SubSeq(p, k, k + 2) = DotCs

\* file_path.endswith('.cs')
IsCs(p) == EndsWith(p, DotCs)

(***************************************************************************)
(* Texts.                                                                  *)
(***************************************************************************)
Open == <<LT>> \o SeeLit \o <<32>> \o CrefLit \o <<EQ, QUOTE>>
Close == <<QUOTE, SLASH, GT>>
SystemLit == <<83, 121, 115, 116, 101, 109>>

TagS == Open \o SadRogueLit \o <<DOT, 65>> \o Close
TagT == Open \o TroschuetzLit \o <<DOT, 66>> \o Close
TagSys == Open \o SystemLit \o <<DOT, 67>> \o Close
\* A qualifier that only starts with an allow-listed name.
TagSX == Open \o SadRogueLit \o <<88, DOT, 68>> \o Close
\* < see\ncref =\t"SadRogue.E" / >
TagSw == <<LT, 32>> \o SeeLit \o <<NL>> \o CrefLit \o <<32, EQ, 9, QUOTE>>
           \o SadRogueLit \o <<DOT, 69, QUOTE, 32, SLASH, 8232, GT>>
OpenS == Open \o SadRogueLit \o <<DOT>>
OpenT == Open \o TroschuetzLit \o <<DOT>>
\* <see cref="SadRogue.F">, the start tag of an element that is not
\* self-closing.
OpenElemS == Open \o SadRogueLit \o <<DOT, 70, QUOTE, GT>>

\* The contents a file of the tree may have at the start of the run.
Contents ==
    { Encode(<<233>> \o TagS \o <<32>> \o TagSys),
      <<120, 195>>,
      Encode(TagT \o <<8364>>) }

\* The responses to the prompt.
Responses == {"y", "Y", "", "yes", "n", "N", " y", "y ", "Yes"}

(***************************************************************************)
(* Inputs of the substitution passes taken on their own.                   *)
(***************************************************************************)
\* Fragments a text is made of.
MaxChunks == 3
\* White-space characters at each place of a tag where the patterns allow
\* them.
MaxSpace == 1

Fragments ==
    <<Open, TagS, Close, TagT, TagSys, TagSX, TagSw, OpenS, OpenT, OpenElemS,
      <<LT, 120, GT>>, <<NL>>>>

RECURSIVE Concat(_)
Concat(ss) == IF ss = <<>> THEN <<>> ELSE Head(ss) \o Concat(Tail(ss))

ChunkSeqs == UNION {[1..n -> 1..Len(Fragments)] : n \in 1..MaxChunks}

\* k white-space characters, taken from SpaceChars from its c-th on.
SpaceChars == <<32, NL, 9, 8232>>
Ws(k, c) == [i \in 1..k |-> SpaceChars[((c + i - 2) % Len(SpaceChars)) + 1]]

\* Text before and after the tag: no '<', no double quote.
Prefixes == {<<>>, <<83, 101, 101, 32, 233, 58, 32>>}
Suffixes == {<<DOT>>, <<SLASH, GT, 32, 120>>}
\* Identifiers after the namespace and the dot: no double quote, no line
\* feed.
Rests == {<<65>>, <<80, DOT, LT, 84, GT, 32, SLASH>>, <<32, SLASH, GT>>}

TagInputs ==
    [kind : {"tag"}, pre : Prefixes, suf : Suffixes, ns : {1, 2}, rest : Rests,
     w1 : 0..MaxSpace, w2 : 0..MaxSpace, w3 : 0..MaxSpace, w4 : 0..MaxSpace,
     w5 : 0..MaxSpace, wc : {1, 2}]

FragInputs == [kind : {"frags"}, chunks : ChunkSeqs]

\* The identifier of a tag input.
TagId(in) == CREF_REGEXES[in.ns] \o <<DOT>> \o in.rest

\* The text an input stands for.
Render(in) ==
    IF in.kind = "frags"
    THEN Concat([k \in 1..Len(in.chunks) |-> Fragments[in.chunks[k]]])
    ELSE in.pre \o <<LT>> \o SeeLit \o Ws(in.w1, in.wc) \o CrefLit
           \o Ws(in.w2, in.wc) \o <<EQ>> \o Ws(in.w3, in.wc) \o <<QUOTE>>
           \o TagId(in) \o <<QUOTE>> \o Ws(in.w4, in.wc) \o <<SLASH>>
           \o Ws(in.w5, in.wc) \o <<GT>> \o in.suf


(***************************************************************************)
(* State.                                                                  *)
(***************************************************************************)
VARIABLES
    pc,          \* where main() is
    resp,        \* what input() returned
    err,         \* the exception that ended the run, or "none"
    fs,          \* the bytes of every file of the tree
    dirs,        \* the directories os.walk has still to yield
    path,        \* the directory of the current os.walk item
    files,       \* the names of that directory the inner loop has still to take
    file_path,   \* the local file_path (<<>> before the first file)
    handles,     \* the open file objects: [path, mode]
    file_data,   \* the local file_data (<<>> while unbound)
    ri,          \* the index in CREF_REGEXES of the next pass
    orig,        \* history: fs at the start of the run
    visited,     \* history: the paths the inner loop has taken
    opensRead,   \* history: how often each path was opened 'rb'
    opensWrite,  \* history: how often each path was opened 'wb'
    input,       \* the input of the passes taken on their own
    once,        \* the text after the first application of the passes
    round        \* which application of the passes is running

vars == <<pc, resp, err, fs, dirs, path, files, file_path, handles, file_data,
          ri, orig, visited, opensRead, opensWrite, input, once, round>>

walkVars == <<dirs, path, files, file_path, visited>>
hist == <<orig, input, once, round>>

\* Mutant of confirm_continue_prompt: any response that reads as a yes.
confirm_any_yes(r) == r \in {"y", "Y", "yes", "Yes", " y", "y "}

\* confirm_continue_prompt's result for the response r.
confirm_continue_prompt(r) == r \in {"y", "Y"}

Init ==
    /\ pc = "prompt"
    /\ resp = ""
    /\ err = "none"
    /\ fs \in [FilePaths -> Contents]
    /\ orig = fs
    /\ dirs = WalkOrder
    /\ path = <<>>
    /\ files = {}
    /\ file_path = <<>>
    /\ handles = {}
    /\ file_data = <<>>
    /\ ri = 1
    /\ visited = {}
    /\ opensRead = [p \in FilePaths |-> 0]
    /\ opensWrite = [p \in FilePaths |-> 0]
    /\ input = [kind |-> "run"]
    /\ once = <<>>
    /\ round = 1

\* if not confirm_continue_prompt(): return
Prompt ==
    /\ pc = "prompt"
    /\ \E r \in Responses :
         /\ resp' = r
         /\ pc' = IF confirm_continue_prompt(r) THEN "walk" ELSE "returned"
    /\ UNCHANGED <<err, fs, walkVars, handles, file_data, ri, opensRead,
                   opensWrite, hist>>

\* input() raises EOFError when standard input is at its end.
PromptEOF ==
    /\ pc = "prompt"
    /\ pc' = "raised"
    /\ err' = "EOFError"
    /\ UNCHANGED <<resp, fs, walkVars, handles, file_data, ri, opensRead,
                   opensWrite, hist>>

\* Mutant of WalkNext: the walk does not descend below CS_PATH.
WalkNextTopOnly ==
    /\ pc = "walk"
    /\ IF dirs # WalkOrder
       THEN /\ pc' = "done"
            /\ UNCHANGED <<dirs, path, files>>
       ELSE /\ path' = Head(dirs)
            /\ files' = Listing(Head(dirs))
            /\ dirs' = Tail(dirs)
            /\ pc' = "files"
    /\ UNCHANGED <<resp, err, fs, file_path, visited, handles, file_data, ri,
                   opensRead, opensWrite, hist>>

\* for path, _, files in os.walk(CS_PATH): the next directory, or the end of
\* main().
WalkNext ==
    /\ pc = "walk"
    /\ IF dirs = <<>>
       THEN /\ pc' = "done"
            /\ UNCHANGED <<dirs, path, files>>
       ELSE /\ path' = Head(dirs)
            /\ files' = Listing(Head(dirs))
            /\ dirs' = Tail(dirs)
            /\ pc' = "files"
    /\ UNCHANGED <<resp, err, fs, file_path, visited, handles, file_data, ri,
                   opensRead, opensWrite, hist>>

\* for name in files: file_path = os.path.join(path, name);
\* if file_path.endswith('.cs'): ...
FileNext ==
    /\ pc = "files"
    /\ IF files = {}
       THEN /\ pc' = "walk"
            /\ UNCHANGED <<files, file_path, visited>>
       ELSE \E name \in files :
              /\ files' = files \ {name}
              /\ file_path' = Join(path, name)
              /\ visited' = visited \cup {Join(path, name)}
              /\ pc' = IF IsCs(Join(path, name)) THEN "open_rb" ELSE "files"
    /\ UNCHANGED <<resp, err, fs, dirs, path, handles, file_data, ri,
                   opensRead, opensWrite, hist>>

\* Mutant of OpenRead: a failed open is caught and the loop goes on.
OpenReadSwallow ==
    /\ pc = "open_rb"
    /\ \/ /\ handles' = handles \cup {[path |-> file_path, mode |-> "rb"]}
          /\ opensRead' = [opensRead EXCEPT ![file_path] = @ + 1]
          /\ pc' = "read"
          /\ err' = err
       \/ /\ pc' = "files"
          /\ err' = "OSError"
          /\ UNCHANGED <<handles, opensRead>>
    /\ UNCHANGED <<resp, fs, walkVars, file_data, ri, opensWrite, hist>>

\* with open(file_path, 'rb') as file: the open succeeds or raises OSError.
OpenRead ==
    /\ pc = "open_rb"
    /\ \/ /\ handles' = handles \cup {[path |-> file_path, mode |-> "rb"]}
          /\ opensRead' = [opensRead EXCEPT ![file_path] = @ + 1]
          /\ pc' = "read"
          /\ err' = err
       \/ /\ pc' = "raised"
          /\ err' = "OSError"
          /\ UNCHANGED <<handles, opensRead>>
    /\ UNCHANGED <<resp, fs, walkVars, file_data, ri, opensWrite, hist>>

\* decode("UTF-8", "ignore"): the well-formed sequences are decoded and the
\* other bytes dropped.
DecodeIgnore(b) ==
    ByValue(LAMBDA S :
              [k \in 1..Cardinality(S) |->
                  ByValue(LAMBDA i : CodePoint(b, i, SeqLen(b, i)),
                          CHOOSE i \in S : Cardinality({j \in S : j <= i}) = k)],
            {i \in 1..Len(b) : b[i] \notin 128..191 /\ SeqLen(b, i) # 0})

\* Mutant of ReadDecode: the decoding ignores errors.
ReadDecodeIgnore ==
    /\ pc = "read"
    /\ handles' = handles \ {[path |-> file_path, mode |-> "rb"]}
    /\ \/ /\ file_data' = DecodeIgnore(fs[file_path])
          /\ ri' = 1
          /\ pc' = "sub"
          /\ err' = err
       \/ /\ pc' = "raised"
          /\ err' = "OSError"
          /\ UNCHANGED <<file_data, ri>>
    /\ UNCHANGED <<resp, fs, walkVars, opensRead, opensWrite, hist>>

\* Mutant of ReadDecode: the file is read without a with block and is never
\* closed.
ReadDecodeNoClose ==
    /\ pc = "read"
    /\ handles' = handles
    /\ \/ /\ ValidUtf8(fs[file_path])
          /\ file_data' = Decode(fs[file_path])
          /\ ri' = 1
          /\ pc' = "sub"
          /\ err' = err
       \/ /\ ~ValidUtf8(fs[file_path])
          /\ pc' = "raised"
          /\ err' = "UnicodeDecodeError"
          /\ UNCHANGED <<file_data, ri>>
       \/ /\ pc' = "raised"
          /\ err' = "OSError"
          /\ UNCHANGED <<file_data, ri>>
    /\ UNCHANGED <<resp, fs, walkVars, opensRead, opensWrite, hist>>

\* file_data = file.read().decode("UTF-8"), and the end of the with block,
\* which closes the file however the block is left.
ReadDecode ==
    /\ pc = "read"
    /\ handles' = handles \ {[path |-> file_path, mode |-> "rb"]}
    /\ \/ /\ ValidUtf8(fs[file_path])
          /\ file_data' = Decode(fs[file_path])
          /\ ri' = 1
          /\ pc' = "sub"
          /\ err' = err
       \/ /\ ~ValidUtf8(fs[file_path])
          /\ pc' = "raised"
          /\ err' = "UnicodeDecodeError"
          /\ UNCHANGED <<file_data, ri>>
       \/ /\ pc' = "raised"
          /\ err' = "OSError"
          /\ UNCHANGED <<file_data, ri>>
    /\ UNCHANGED <<resp, fs, walkVars, opensRead, opensWrite, hist>>

\* for regex in CREF_REGEXES:
\*     file_data = re.sub(regex, convert_to_match, file_data)
\* One step is one pass.
Sub ==
    /\ pc = "sub"
    /\ file_data' = ReSub(CREF_REGEXES[ri], file_data)
    /\ IF ri < Len(CREF_REGEXES)
       THEN ri' = ri + 1 /\ pc' = "sub"
       ELSE ri' = ri /\ pc' = "open_wb"
    /\ UNCHANGED <<resp, err, fs, walkVars, handles, opensRead, opensWrite,
                   hist>>

\* with open(file_path, 'wb') as write: the open truncates the file, or
\* raises OSError and leaves it as it is.
OpenWrite ==
    /\ pc = "open_wb"
    /\ input.kind = "run"
    /\ \/ /\ handles' = handles \cup {[path |-> file_path, mode |-> "wb"]}
          /\ opensWrite' = [opensWrite EXCEPT ![file_path] = @ + 1]
          /\ fs' = [fs EXCEPT ![file_path] = <<>>]
          /\ pc' = "write"
          /\ err' = err
       \/ /\ pc' = "raised"
          /\ err' = "OSError"
          /\ UNCHANGED <<handles, opensWrite, fs>>
    /\ UNCHANGED <<resp, walkVars, file_data, ri, opensRead, hist>>

\* write.write(file_data.encode("UTF-8")), and the end of the with block.
\* A write that raises OSError may have put any part of the bytes in the
\* file.
Write ==
    /\ pc = "write"
    /\ handles' = handles \ {[path |-> file_path, mode |-> "wb"]}
    /\ LET data == Encode(file_data)
       IN  \/ /\ fs' = [fs EXCEPT ![file_path] = data]
              /\ pc' = "files"
              /\ err' = err
           \/ /\ \E n \in 0..(Len(data) - 1) :
                    fs' = [fs EXCEPT ![file_path] = SubSeq(data, 1, n)]
              /\ pc' = "raised"
              /\ err' = "OSError"
    /\ UNCHANGED <<resp, walkVars, file_data, ri, opensRead, opensWrite, hist>>

\* The steps of the process once input() has returned.
Run ==
    \/ WalkNext
    \/ FileNext
    \/ OpenRead
    \/ ReadDecode
    \/ Sub
    \/ OpenWrite
    \/ Write

Next ==
    \/ Prompt
    \/ PromptEOF
    \/ Run

Spec == Init /\ [][Next]_vars

\* The process is scheduled until it ends; the user need not answer.
LiveSpec == Spec /\ WF_vars(Run)

(***************************************************************************)
(* The substitution passes taken on their own: the loop over CREF_REGEXES  *)
(* applied to a text, and applied once more to its result.                 *)
(***************************************************************************)
Inputs == FragInputs \cup TagInputs

RewriteInit ==
    /\ input \in Inputs
    /\ file_data = Render(input)
    /\ ri = 1
    /\ pc = "sub"
    /\ round = 1
    /\ once = <<>>
    /\ resp = "y"
    /\ err = "none"
    /\ fs = <<>>
    /\ orig = <<>>
    /\ dirs = <<>>
    /\ path = <<>>
    /\ files = {}
    /\ file_path = <<>>
    /\ handles = {}
    /\ visited = {}
    /\ opensRead = <<>>
    /\ opensWrite = <<>>

\* The loop has ended: its result is kept and the loop runs again on it.
Again ==
    /\ pc = "open_wb"
    /\ input.kind # "run"
    /\ round = 1
    /\ round' = 2
    /\ once' = file_data
    /\ ri' = 1
    /\ pc' = "sub"
    /\ UNCHANGED <<resp, err, fs, walkVars, handles, file_data, opensRead,
                   opensWrite, orig, input>>

RewriteNext ==
    \/ Sub
    \/ Again

RewriteSpec == RewriteInit /\ [][RewriteNext]_vars


(***************************************************************************)
(* Properties.                                                             *)
(***************************************************************************)
\* The path ends with the three characters '.cs'.
CsSuffix(p) ==
    /\ Len(p) >= 3
    /\ p[Len(p) - 2] = "."
    /\ p[Len(p) - 1] = "c"
    /\ p[Len(p)] = "s"

\* File p holds the rewriting of its original content.
HoldsRewritten(p) ==
    /\ ValidUtf8(orig[p])
    /\ fs[p] = Encode(Rewrite(Decode(orig[p])))

\* File p was never opened and holds its original content.
Untouched(p) ==
    /\ opensRead[p] = 0
    /\ opensWrite[p] = 0
    /\ fs[p] = orig[p]
    /\ \A h \in handles : h.path # p

AllRewritten == \A p \in FilePaths : CsSuffix(p) => HoldsRewritten(p)

\* C1: once the prompt is answered with 'y' or 'Y', the run ends; unless a
\* read, a decode or a write failed, it ends with every file whose path ends
\* with '.cs' holding the rewriting of its original content, none skipped.
C1_AllCsRewritten ==
    (pc = "walk" /\ resp \in {"y", "Y"})
        ~> (err # "none" \/ (pc = "done" /\ AllRewritten))

C1_Witness ==
    /\ pc = "done"
    /\ resp = "Y"
    /\ AllRewritten
    /\ \E p, q \in FilePaths :
         /\ p # q
         /\ CsSuffix(p) /\ fs[p] # orig[p]
         /\ CsSuffix(q) /\ fs[q] # orig[q]

\* C2: after any response other than exactly 'y' or 'Y', main() has returned
\* and no file was opened, read or written: every file holds its original
\* content in every state.
C2_DeclineTouchesNothing ==
    (pc # "prompt" /\ err # "EOFError" /\ resp \notin {"y", "Y"}) =>
        /\ pc = "returned"
        /\ fs = orig
        /\ visited = {}
        /\ \A p \in FilePaths : Untouched(p)

C2_Witness ==
    /\ pc = "returned"
    /\ resp = "y "
    /\ fs = orig

\* C6: a file whose path does not end with '.cs' is never opened for reading
\* or writing and keeps its original content, although the walk takes it.
C6_OthersNeverOpened ==
    \A p \in FilePaths : ~CsSuffix(p) => Untouched(p)

C6_Witness ==
    /\ pc = "done"
    /\ \E p \in visited : ~CsSuffix(p) /\ Untouched(p)
    /\ \E q \in FilePaths : CsSuffix(q) /\ fs[q] # orig[q]

\* C7: a '.cs' file whose bytes are not valid UTF-8 is never opened for
\* writing and keeps its original bytes, and once it has been read the run
\* has ended with the exception.
C7_UndecodableKept ==
    \A p \in FilePaths :
        (CsSuffix(p) /\ ~ValidUtf8(orig[p])) =>
            /\ opensWrite[p] = 0
            /\ fs[p] = orig[p]
            /\ (file_path = p /\ pc \notin {"open_rb", "read"}) => pc = "raised"

C7_Witness ==
    /\ err = "UnicodeDecodeError"
    /\ pc = "raised"
    /\ ~ValidUtf8(orig[file_path])
    /\ fs[file_path] = orig[file_path]
    /\ opensRead[file_path] = 1

\* What holds once a read, a decode or a write has failed.
AbortedAtOnce ==
    (err # "none" /\ pc # "prompt" /\ err # "EOFError") =>
        /\ pc = "raised"
        /\ handles = {}
        /\ \A p \in FilePaths :
             /\ p \notin visited => Untouched(p)
             /\ (p \in visited /\ p # file_path /\ CsSuffix(p))
                    => HoldsRewritten(p)

\* C8: when a read, a decode or a write of a file fails the run ends at
\* once: no step follows the failure, the files the walk had not reached are
\* never opened, and the files processed before keep their rewritten
\* content.
C8_FailureAborts == [](AbortedAtOnce) /\ [][err = "none"]_vars

C8_Witness ==
    /\ err = "OSError"
    /\ \E p, q \in FilePaths :
         /\ p # file_path
         /\ CsSuffix(p) /\ opensWrite[p] = 1 /\ fs[p] # orig[p]
         /\ q \notin visited

\* C9: files are processed one at a time: at most one file is open, and it
\* is the current one; a file that has been opened and is no longer the
\* current one has been written; no path is opened twice; at the end every
\* '.cs' path was read once and written once.
C9_OneFileAtATime ==
    /\ Cardinality(handles) <= 1
    /\ \A h \in handles : h.path = file_path
    /\ \A p \in FilePaths :
         /\ opensRead[p] <= 1
         /\ opensWrite[p] <= opensRead[p]
         /\ (opensRead[p] = 1 /\ p # file_path) =>
                (opensWrite[p] = 1 /\ HoldsRewritten(p))
         /\ (pc = "done" /\ CsSuffix(p)) =>
                (opensRead[p] = 1 /\ opensWrite[p] = 1)

C9_Witness ==
    /\ pc = "done"
    /\ \E p, q \in FilePaths :
         /\ p # q
         /\ opensRead[p] = 1 /\ opensWrite[p] = 1
         /\ opensRead[q] = 1 /\ opensWrite[q] = 1

(***************************************************************************)
(* Properties of the passes taken on their own.                            *)
(***************************************************************************)
\* The first application of the passes has ended.
AfterFirst == pc = "open_wb" /\ round = 1
\* The second application has ended.
AfterSecond == pc = "open_wb" /\ round = 2

\* The tag that starts at position i of t, whatever its qualifier:
\* <see cref="ID"/> with the white space the patterns allow and an ID free
\* of double quotes.  The position of its closing quote, or 0.
TagQuote(t, i) ==
    LET o == OpenEnd(t, i)
        Q == {q \in o..Len(t) : t[q] = QUOTE}
        q == IF o = 0 \/ Q = {} THEN 0 ELSE CHOOSE x \in Q : \A y \in Q : x <= y
    IN  IF q # 0 /\ CloseEnd(t, q) # 0 THEN q ELSE 0

\* The identifier of that tag.
TagIdAt(t, i) == SubSeq(t, OpenEnd(t, i), TagQuote(t, i) - 1)

\* The whole tag.
TagAt(t, i) == SubSeq(t, i, CloseEnd(t, TagQuote(t, i)) - 1)

\* The qualifier of an identifier: what precedes its first dot.
Qualifier(id) ==
    LET D == {k \in 1..Len(id) : id[k] = DOT}
    IN  IF D = {} THEN id
        ELSE SubSeq(id, 1, (CHOOSE k \in D : \A l \in D : k <= l) - 1)

\* How often s occurs in t.
Count(s, t) == Cardinality({k \in 1..Len(t) : HasLit(t, k, s)})

\* A self-closing tag <see cref="Q.rest"/> with Q not allow-listed starts at
\* position i of t.
OtherTagAt(t, i) ==
    /\ TagQuote(t, i) # 0
    /\ \E k \in 1..Len(TagIdAt(t, i)) : TagIdAt(t, i)[k] = DOT
    /\ Qualifier(TagIdAt(t, i)) \notin {SadRogueLit, TroschuetzLit}

\* C3: every self-closing tag whose qualifier is neither SadRogue nor
\* Troschuetz is in the output unchanged, whatever precedes or follows it:
\* the output holds it as often as the input.
C3_OtherTagsKept ==
    AfterFirst =>
        LET t == Render(input)
        IN  \A i \in 1..Len(t) :
                OtherTagAt(t, i) =>
                    Count(TagAt(t, i), file_data) >= Count(TagAt(t, i), t)

\* C4: a text made of a prefix, one allow-listed tag with any white space
\* the patterns allow, and a suffix (prefix and suffix without '<' and
\* double quote) is rewritten to prefix, identifier, suffix.
C4_TagBecomesId ==
    (AfterFirst /\ input.kind = "tag") =>
        file_data = input.pre \o TagId(input) \o input.suf

C4_Witness ==
    /\ AfterFirst
    /\ input.kind = "tag"
    /\ input.ns = 2
    /\ input.w1 = 0 /\ input.w2 = 1 /\ input.w3 = 1 /\ input.w4 = 1
    /\ input.w5 = 1 /\ input.wc = 2
    /\ Len(input.rest) > 1
    /\ file_data = input.pre \o TagId(input) \o input.suf

\* C5 as stated: the passes are idempotent on every text.
C5_Idempotent == AfterSecond => file_data = once

\* Every opening <see cref=" in t (with the white space the patterns allow)
\* starts a self-closing tag <see cref="ID"/> whose ID holds no double quote
\* and no '<' and is more than an allow-listed namespace and its dot.
WellFormedTags(t) ==
    \A i \in 1..Len(t) :
        OpenEnd(t, i) # 0 =>
            /\ TagQuote(t, i) # 0
            /\ \A k \in 1..Len(TagIdAt(t, i)) : TagIdAt(t, i)[k] # LT
            /\ TagIdAt(t, i) \notin {SadRogueLit \o <<DOT>>, TroschuetzLit \o <<DOT>>}

\* C5 amended: on a text in which every opening <see cref=" starts such a
\* tag the passes are idempotent, and their output holds nothing either
\* pattern matches.
C5_IdempotentOnWellFormed ==
    (AfterSecond /\ WellFormedTags(Render(input))) =>
        /\ file_data = once
        /\ ~Matches(SadRogueLit, once)
        /\ ~Matches(TroschuetzLit, once)

C5_Witness ==
    /\ AfterSecond
    /\ WellFormedTags(Render(input))
    /\ input.kind = "frags"
    /\ Len(input.chunks) = 3
    /\ once # Render(input)
    /\ \E i \in 1..Len(once) : once[i] = LT
    /\ file_data = once

\* s is a subsequence of t: the characters of s from the i-th on are found
\* in order in t from the j-th on.
RECURSIVE Embeds(_, _, _, _)
Embeds(s, i, t, j) ==
    IF i > Len(s) THEN TRUE
    ELSE IF j > Len(t) THEN FALSE
    ELSE IF s[i] = t[j] THEN Embeds(s, i + 1, t, j + 1)
    ELSE Embeds(s, i, t, j + 1)

\* C10: the passes only delete: the output is a subsequence of the input,
\* never longer, and equal to it exactly when neither pattern matches
\* anywhere in the input.
C10_OnlyDeletes ==
    AfterFirst =>
        LET t == Render(input)
        IN  /\ Embeds(file_data, 1, t, 1)
            /\ Len(file_data) <= Len(t)
            /\ (file_data = t) <=>
                   (~Matches(SadRogueLit, t) /\ ~Matches(TroschuetzLit, t))

C10_Witness ==
    /\ AfterFirst
    /\ input.kind = "frags"
    /\ Len(file_data) < Len(Render(input))
    /\ Matches(SadRogueLit, Render(input))
    /\ Matches(TroschuetzLit, Render(input))

====
